---- MODULE Spec2Model ----
(***************************************************************************)
(* Forward passes of the two-stage RNN of rnn_ipsid_nonlinear.py:          *)
(* Optim1 (stage-1 recurrence + behaviour readout), Optim2 (neural readout *)
(* of the stage-1 states), Optim3 (stage-2 recurrence + neural readout)    *)
(* and Optim4 (behaviour readout of the stage-2 states).                   *)
(*                                                                         *)
(* A 2-D tensor (batch, feature) is a non-empty sequence of rows, a row a  *)
(* sequence of integers.  A 3-D tensor (batch, time, feature) is a record  *)
(* [B, T, D, v] with v[b][t] a row of width D (time is 1-based in v, the   *)
(* loop index t of the code is 0-based).  Doubles are modelled by integers *)
(* (all weights and samples are small integers, on which double affine     *)
(* arithmetic is exact); the sigmoid is a fixed-point table.               *)
(***************************************************************************)
EXTENDS Integers, Sequences, FiniteSets, TLC

VARIABLES params, pc, frame, ret, first

vars == <<params, pc, frame, ret, first>>

(* ------------------------------ bounds ------------------------------- *)
MaxB == 2
MaxT == 3
MaxLen == 2
Vals == {0, 1}

(* ---------------------- constructor arguments ------------------------ *)
xBehav_size == 2
xNeural_size == 1
y_size == 2
u_size == 1
yhat_size == 2
zhat_size == 1

(* --------------------------- tensor algebra -------------------------- *)
Max(a, b) == IF a >= b THEN a ELSE b

RECURSIVE DotTo(_, _, _)
DotTo(r, x, n) == IF n = 0 THEN 0 ELSE DotTo(r, x, n - 1) + r[n] * x[n]

Width(m) == Len(m[1])

\* nn.Linear: a layer is [W |-> out x in matrix, b |-> bias of width out]
in_features(L) == Len(L.W[1])

LinearOK(L, m) == Width(m) = in_features(L)

Linear(L, m) ==
    [r \in 1..Len(m) |->
        [i \in 1..Len(L.b) |-> DotTo(L.W[i], m[r], in_features(L)) + L.b[i]]]

\* torch "+" on (batch, feature) tensors, with broadcasting of a size-1 axis
BroadcastOK(m1, m2) ==
    /\ Len(m1) = Len(m2) \/ Len(m1) = 1 \/ Len(m2) = 1
    /\ Width(m1) = Width(m2) \/ Width(m1) = 1 \/ Width(m2) = 1

Add(m1, m2) ==
    [r \in 1..Max(Len(m1), Len(m2)) |->
        [i \in 1..Max(Width(m1), Width(m2)) |->
              m1[IF Len(m1) = 1 THEN 1 ELSE r][IF Width(m1) = 1 THEN 1 ELSE i]
            + m2[IF Len(m2) = 1 THEN 1 ELSE r][IF Width(m2) = 1 THEN 1 ELSE i]]]

ReLU(m) == [r \in 1..Len(m) |-> [i \in 1..Width(m) |-> Max(m[r][i], 0)]]

\* 1/(1+exp(-v)) in units of 1e-4, rounded; saturated outside -9..9
SigmoidTable ==
    <<1, 3, 9, 25, 67, 180, 474, 1192, 2689, 5000,
      7311, 8808, 9526, 9820, 9933, 9975, 9991, 9997, 9999>>

Sigmoid1(v) == IF v < -9 THEN 0 ELSE IF v > 9 THEN 10000 ELSE SigmoidTable[v + 10]

Sigmoid(m) == [r \in 1..Len(m) |-> [i \in 1..Width(m) |-> Sigmoid1(m[r][i])]]

\* (mutant) the initial state is a non-zero constant
ZerosAsOnes(B, D) == [r \in 1..B |-> [i \in 1..D |-> 1]]

\* torch.zeros(batch_size, size)
Zeros(B, D) == [r \in 1..B |-> [i \in 1..D |-> 0]]

\* x[:, t, :] for the 0-based index t
SliceOK(x, t) == t < x.T

\* (mutant) the time axis is indexed from its end
SliceFromEnd(x, t) == [b \in 1..x.B |-> x.v[b][x.T - t]]

Slice(x, t) == [b \in 1..x.B |-> x.v[b][t + 1]]

\* torch.stack(list, dim=1) of (batch, feature) tensors
StackOK(list) ==
    /\ Len(list) > 0
    /\ \A i \in 1..Len(list) :
          Len(list[i]) = Len(list[1]) /\ Width(list[i]) = Width(list[1])

\* (mutant) the list is stacked along dim 0: the result is (time, batch, feature)
StackDim0(list) ==
    [B |-> Len(list), T |-> Len(list[1]), D |-> Width(list[1]),
     v |-> [t \in 1..Len(list) |-> [b \in 1..Len(list[1]) |-> list[t][b]]]]

Stack(list) ==
    [B |-> Len(list[1]), T |-> Len(list), D |-> Width(list[1]),
     v |-> [b \in 1..Len(list[1]) |-> [t \in 1..Len(list) |-> list[t][b]]]]

\* torch.cat((a, b), dim=2)
CatOK(a, b) == a.B = b.B /\ a.T = b.T

\* (mutant) the second tensor's features come first
CatSwapped(a, b) ==
    [B |-> a.B, T |-> a.T, D |-> a.D + b.D,
     v |-> [r \in 1..a.B |-> [t \in 1..a.T |-> b.v[r][t] \o a.v[r][t]]]]

Cat(a, b) ==
    [B |-> a.B, T |-> a.T, D |-> a.D + b.D,
     v |-> [r \in 1..a.B |-> [t \in 1..a.T |-> a.v[r][t] \o b.v[r][t]]]]

(* ------------------------------ modules ------------------------------ *)
\* Optim1Cell.forward
Optim1CellOK(cell, xBehav_t, y_t, u_t) ==
    /\ LinearOK(cell.W_A, xBehav_t)
    /\ LinearOK(cell.W_K, y_t)
    /\ LinearOK(cell.W_B, u_t)
    /\ BroadcastOK(Linear(cell.W_A, xBehav_t), Linear(cell.W_K, y_t))
    /\ BroadcastOK(Add(Linear(cell.W_A, xBehav_t), Linear(cell.W_K, y_t)),
                   Linear(cell.W_B, u_t))

\* (mutant) the input term is left out
Optim1CellNoInput(cell, xBehav_t, y_t, u_t) ==
    Add(Linear(cell.W_A, xBehav_t), Linear(cell.W_K, y_t))

Optim1Cell(cell, xBehav_t, y_t, u_t) ==
    Add(Add(Linear(cell.W_A, xBehav_t), Linear(cell.W_K, y_t)), Linear(cell.W_B, u_t))

\* Optim3Cell.forward
Optim3CellOK(cell, xNeural_t, yAndxBehav_t, u_t) ==
    /\ LinearOK(cell.W_A, xNeural_t)
    /\ LinearOK(cell.W_K, yAndxBehav_t)
    /\ LinearOK(cell.W_B, u_t)
    /\ BroadcastOK(Linear(cell.W_A, xNeural_t), Linear(cell.W_K, yAndxBehav_t))
    /\ BroadcastOK(Add(Linear(cell.W_A, xNeural_t), Linear(cell.W_K, yAndxBehav_t)),
                   Linear(cell.W_B, u_t))

Optim3Cell(cell, xNeural_t, yAndxBehav_t, u_t) ==
    Add(Add(Linear(cell.W_A, xNeural_t), Linear(cell.W_K, yAndxBehav_t)),
        Linear(cell.W_B, u_t))

\* the four readouts: linear -> ReLU -> linear -> sigmoid
ReadoutOK(dec, x_t) == LinearOK(dec.lin, x_t)

Readout(dec, x_t) == Sigmoid(Linear(dec.lin2, ReLU(Linear(dec.lin, x_t))))

NonlinearOptim1CellZ(dec, xBehav_t) == Readout(dec, xBehav_t)

NonlinearOptim3CellY(dec, xNeural_t) == Readout(dec, xNeural_t)

(* ----------------------------- parameters ---------------------------- *)
\* a layer whose weight is w * (i + j - 1) at (i, j) and whose bias is b + i - 1:
\* the columns of a non-zero weight differ, so the order of the input features matters
Layer(out, in, w, b) ==
    [W |-> [i \in 1..out |-> [j \in 1..in |-> w * (i + j - 1)]],
     b |-> [i \in 1..out |-> IF b = 0 THEN 0 ELSE b + i - 1]]

\* <<wA, wK, bs>>: a generic cell, one with zero A and K weights but biases, one with
\* A and K zero altogether, one without biases
ParamChoices == {<<1, 1, 1>>, <<0, 0, 1>>, <<0, 0, 0>>, <<2, 1, 0>>}

\* the modules as constructed, for a choice of the recurrence weights (wA, wK) and of
\* the bias scale bs (0: every recurrence bias is zero)
MakeParams(wA, wK, bs) ==
    [rnn_cell1 |-> [W_A |-> Layer(xBehav_size, xBehav_size, wA, bs),
                    W_K |-> Layer(xBehav_size, y_size, wK, 2 * bs),
                    W_B |-> Layer(xBehav_size, u_size, 1, 3 * bs)],
     nonlinear_cellZ |-> [lin  |-> Layer(xBehav_size, xBehav_size, 1, -1),
                          lin2 |-> Layer(zhat_size, xBehav_size, 1, -2)],
     optim2 |-> [lin  |-> Layer(xBehav_size, xBehav_size, 1, -2),
                 lin2 |-> Layer(yhat_size, xBehav_size, 1, -1)],
     rnn_cell3 |-> [W_A |-> Layer(xNeural_size, xNeural_size, wA, bs),
                    W_K |-> Layer(xNeural_size, y_size + xBehav_size, wK, bs),
                    W_B |-> Layer(xNeural_size, u_size, 2, 2 * bs)],
     nonlinear_cellY |-> [lin  |-> Layer(xNeural_size, xNeural_size, 1, -3),
                          lin2 |-> Layer(yhat_size, xNeural_size, 1, -1)],
     optim4 |-> [lin  |-> Layer(xNeural_size, xNeural_size, 1, -1),
                 lin2 |-> Layer(zhat_size, xNeural_size, 1, -3)]]

(* ------------------------------- inputs ------------------------------ *)
\* the (B, T, D) tensor whose sample at time t is s[t], shifted by the batch row and
\* by the feature so that rows and features differ
InputTensor(B, T, D, s) ==
    [B |-> B, T |-> T, D |-> D,
     v |-> [b \in 1..B |-> [t \in 1..T |-> [d \in 1..D |-> s[t] + 2 * (b - 1) + (d - 1)]]]]

\* every tensor of the family with the given batch sizes, lengths and widths
Tensors(Bs, Ts, Ds) ==
    UNION {{InputTensor(B, T, D, s) : s \in [1..T -> Vals]} :
              <<B, T, D>> \in Bs \X Ts \X Ds}

\* the tensors of the family whose samples are the same at every time step
FlatTensors(Bs, Ts, Ds) ==
    UNION {{InputTensor(B, T, D, [t \in 1..T |-> c]) : c \in Vals} :
              <<B, T, D>> \in Bs \X Ts \X Ds}

\* the samples <<behavStates, y, u>> of one time step of a well-shaped Optim3 call: at
\* most one of the three streams departs from 0
Samples3 == {<<0, 0, 0>>, <<1, 0, 0>>, <<0, 1, 0>>, <<0, 0, 1>>}

NoFrame == [fn |-> "none"]
NoRet == [kind |-> "none"]
NoCall == [fn |-> "none"]

Raise(e, steps) ==
    /\ pc' = "error"
    /\ ret' = [kind |-> "error", error |-> e, steps |-> steps]
    /\ UNCHANGED first

\* a forward pass returns: the caller sees the value; the first value an instance
\* returns is kept, to compare later calls with it
Return(fn, in, value) ==
    /\ pc' = "done"
    /\ ret' = [kind |-> "value", value |-> value]
    /\ first' = IF first = NoCall THEN [fn |-> fn, in |-> in, out |-> value] ELSE first

(* ------------------------------ Optim1 ------------------------------- *)
\* (mutant) the running state is kept on the module: a later call starts from the last
\* state the first call returned
Optim1LocalsStateful(y, u) ==
    [fn |-> "Optim1", y |-> y, u |-> u, repeated |-> first # NoCall,
     batch_size |-> y.B, seq_len |-> y.T, t |-> 0,
     xBehav_t |-> IF first.fn = "Optim1" /\ first.out[2].B = y.B
                  THEN Slice(first.out[2], first.out[2].T - 1)
                  ELSE Zeros(y.B, xBehav_size),
     behavStates |-> <<>>, z_hats1 |-> <<>>]

\* the locals of Optim1.forward before the loop, lines 48-55: sizes from y, zero state,
\* empty lists (repeated: whether the instance has returned from a call before)
Optim1Locals(y, u) ==
    [fn |-> "Optim1", y |-> y, u |-> u, repeated |-> first # NoCall,
     batch_size |-> y.B, seq_len |-> y.T, t |-> 0,
     xBehav_t |-> Zeros(y.B, xBehav_size),
     behavStates |-> <<>>, z_hats1 |-> <<>>]

\* Optim1.forward, lines 48-55
Optim1Call(y, u) ==
    /\ pc' = "loop"
    /\ frame' = Optim1Locals(y, u)
    /\ ret' = NoRet
    /\ UNCHANGED <<params, first>>

\* (mutant) the next state is appended: the returned sequence is x[1..T]
Optim1IterShifted(f, cell, dec, y_t, u_t) ==
    [f EXCEPT !.behavStates = Append(@, Optim1Cell(cell, f.xBehav_t, y_t, u_t)),
              !.z_hats1 = Append(@, NonlinearOptim1CellZ(dec, f.xBehav_t)),
              !.xBehav_t = Optim1Cell(cell, f.xBehav_t, y_t, u_t),
              !.t = @ + 1]

\* (mutant) the readout is taken of the next state
Optim1IterReadNext(f, cell, dec, y_t, u_t) ==
    [f EXCEPT !.behavStates = Append(@, f.xBehav_t),
              !.z_hats1 = Append(@, NonlinearOptim1CellZ(dec,
                                        Optim1Cell(cell, f.xBehav_t, y_t, u_t))),
              !.xBehav_t = Optim1Cell(cell, f.xBehav_t, y_t, u_t),
              !.t = @ + 1]

\* the body of the loop, lines 59-65, on the locals f: the current state is appended,
\* the next state and the readout of the current state are computed, the state advances
Optim1Iter(f, cell, dec, y_t, u_t) ==
    [f EXCEPT !.behavStates = Append(@, f.xBehav_t),
              !.z_hats1 = Append(@, NonlinearOptim1CellZ(dec, f.xBehav_t)),
              !.xBehav_t = Optim1Cell(cell, f.xBehav_t, y_t, u_t),
              !.t = @ + 1]

\* one iteration of the loop, lines 58-65
Optim1Step ==
    /\ pc = "loop" /\ frame.fn = "Optim1" /\ frame.t < frame.seq_len
    /\ LET t == frame.t
           xBehav_t == frame.xBehav_t
       IN  IF ~SliceOK(frame.u, t)
           THEN Raise("IndexError", t) /\ UNCHANGED frame
           ELSE LET y_t == Slice(frame.y, t)
                    u_t == Slice(frame.u, t)
                IN  IF ~Optim1CellOK(params.rnn_cell1, xBehav_t, y_t, u_t)
                       \/ ~ReadoutOK(params.nonlinear_cellZ, xBehav_t)
                    THEN Raise("RuntimeError", t) /\ UNCHANGED frame
                    ELSE /\ frame' = Optim1Iter(frame, params.rnn_cell1,
                                             params.nonlinear_cellZ, y_t, u_t)
                         /\ UNCHANGED <<pc, ret, first>>
    /\ UNCHANGED params

\* lines 68-70: stack the lists and return (z_hats1, behavStates)
Optim1Return ==
    /\ pc = "loop" /\ frame.fn = "Optim1" /\ frame.t = frame.seq_len
    /\ IF ~StackOK(frame.behavStates) \/ ~StackOK(frame.z_hats1)
       THEN Raise("RuntimeError", frame.t)
       ELSE Return("Optim1", <<frame.y, frame.u>>,
                   <<Stack(frame.z_hats1), Stack(frame.behavStates)>>)
    /\ UNCHANGED <<params, frame>>

(* ------------------------------ Optim2 ------------------------------- *)
\* Optim2.forward, lines 81-83
Optim2Call(xBehav) ==
    /\ pc' = "loop"
    /\ frame' = [fn |-> "Optim2", xBehav_t |-> xBehav, repeated |-> first # NoCall,
                 seq_len |-> xBehav.T, t |-> 0, y_hats1 |-> <<>>]
    /\ ret' = NoRet
    /\ UNCHANGED <<params, first>>

\* lines 85-91
Optim2Step ==
    /\ pc = "loop" /\ frame.fn = "Optim2" /\ frame.t < frame.seq_len
    /\ LET x_t == Slice(frame.xBehav_t, frame.t)
       IN  IF ~ReadoutOK(params.optim2, x_t)
           THEN Raise("RuntimeError", frame.t) /\ UNCHANGED frame
           ELSE /\ frame' = [frame EXCEPT
                                !.y_hats1 = Append(@, Readout(params.optim2, x_t)),
                                !.t = @ + 1]
                /\ UNCHANGED <<pc, ret, first>>
    /\ UNCHANGED params

\* lines 93-94
Optim2Return ==
    /\ pc = "loop" /\ frame.fn = "Optim2" /\ frame.t = frame.seq_len
    /\ IF ~StackOK(frame.y_hats1)
       THEN Raise("RuntimeError", frame.t)
       ELSE Return("Optim2", <<frame.xBehav_t>>, Stack(frame.y_hats1))
    /\ UNCHANGED <<params, frame>>

(* ------------------------------ Optim3 ------------------------------- *)
\* Optim3.forward, lines 136-146: sizes from y, zero state, the concatenation, empty lists
Optim3Call(behavStates, y, u) ==
    /\ IF ~CatOK(y, behavStates)
       THEN /\ Raise("RuntimeError", 0)
            /\ frame' = [fn |-> "Optim3", behavStates |-> behavStates, y |-> y, u |-> u,
                         repeated |-> first # NoCall,
                         batch_size |-> y.B, seq_len |-> y.T, t |-> 0,
                         xNeural_t |-> Zeros(y.B, xNeural_size)]
       ELSE /\ pc' = "loop"
            /\ frame' = [fn |-> "Optim3", behavStates |-> behavStates, y |-> y, u |-> u,
                         repeated |-> first # NoCall,
                         batch_size |-> y.B, seq_len |-> y.T, t |-> 0,
                         xNeural_t |-> Zeros(y.B, xNeural_size),
                         yAndxBehav |-> Cat(y, behavStates),
                         y_hats2 |-> <<>>, xNeural_states |-> <<>>]
            /\ ret' = NoRet
            /\ UNCHANGED first
    /\ UNCHANGED params

\* (mutant) the next state is appended: the returned sequence is xNeural[1..T]
Optim3IterShifted(f, cell, dec, yAndxBehav_t, u_t) ==
    [f EXCEPT !.xNeural_states = Append(@, Optim3Cell(cell, f.xNeural_t, yAndxBehav_t, u_t)),
              !.y_hats2 = Append(@, NonlinearOptim3CellY(dec, f.xNeural_t)),
              !.xNeural_t = Optim3Cell(cell, f.xNeural_t, yAndxBehav_t, u_t),
              !.t = @ + 1]

\* the body of the loop, lines 149-155, on the locals f
Optim3Iter(f, cell, dec, yAndxBehav_t, u_t) ==
    [f EXCEPT !.xNeural_states = Append(@, f.xNeural_t),
              !.y_hats2 = Append(@, NonlinearOptim3CellY(dec, f.xNeural_t)),
              !.xNeural_t = Optim3Cell(cell, f.xNeural_t, yAndxBehav_t, u_t),
              !.t = @ + 1]

\* one iteration of the loop, lines 148-155
Optim3Step ==
    /\ pc = "loop" /\ frame.fn = "Optim3" /\ frame.t < frame.seq_len
    /\ LET t == frame.t
           xNeural_t == frame.xNeural_t
           yAndxBehav_t == Slice(frame.yAndxBehav, t)
       IN  IF ~SliceOK(frame.u, t)
           THEN Raise("IndexError", t) /\ UNCHANGED frame
           ELSE LET u_t == Slice(frame.u, t)
                IN  IF ~Optim3CellOK(params.rnn_cell3, xNeural_t, yAndxBehav_t, u_t)
                       \/ ~ReadoutOK(params.nonlinear_cellY, xNeural_t)
                    THEN Raise("RuntimeError", t) /\ UNCHANGED frame
                    ELSE /\ frame' = Optim3Iter(frame, params.rnn_cell3,
                                             params.nonlinear_cellY, yAndxBehav_t, u_t)
                         /\ UNCHANGED <<pc, ret, first>>
    /\ UNCHANGED params

\* lines 158-161: stack the lists and return (y_hats2, xNeural_states)
Optim3Return ==
    /\ pc = "loop" /\ frame.fn = "Optim3" /\ frame.t = frame.seq_len
    /\ IF ~StackOK(frame.y_hats2) \/ ~StackOK(frame.xNeural_states)
       THEN Raise("RuntimeError", frame.t)
       ELSE Return("Optim3", <<frame.behavStates, frame.y, frame.u>>,
                   <<Stack(frame.y_hats2), Stack(frame.xNeural_states)>>)
    /\ UNCHANGED <<params, frame>>

(* ------------------------------ Optim4 ------------------------------- *)
\* Optim4.forward, lines 172-174
Optim4Call(xNeural) ==
    /\ pc' = "loop"
    /\ frame' = [fn |-> "Optim4", xNeural_t |-> xNeural, repeated |-> first # NoCall,
                 seq_len |-> xNeural.T, t |-> 0, z_hats2 |-> <<>>]
    /\ ret' = NoRet
    /\ UNCHANGED <<params, first>>

\* lines 175-181
Optim4Step ==
    /\ pc = "loop" /\ frame.fn = "Optim4" /\ frame.t < frame.seq_len
    /\ LET x_t == Slice(frame.xNeural_t, frame.t)
       IN  IF ~ReadoutOK(params.optim4, x_t)
           THEN Raise("RuntimeError", frame.t) /\ UNCHANGED frame
           ELSE /\ frame' = [frame EXCEPT
                                !.z_hats2 = Append(@, Readout(params.optim4, x_t)),
                                !.t = @ + 1]
                /\ UNCHANGED <<pc, ret, first>>
    /\ UNCHANGED params

\* lines 183-184
Optim4Return ==
    /\ pc = "loop" /\ frame.fn = "Optim4" /\ frame.t = frame.seq_len
    /\ IF ~StackOK(frame.z_hats2)
       THEN Raise("RuntimeError", frame.t)
       ELSE Return("Optim4", <<frame.xNeural_t>>, Stack(frame.z_hats2))
    /\ UNCHANGED <<params, frame>>

\* the caller has consumed what the call returned or raised: the tensors of the call
\* are gone, the instance is ready for its next call
Consume ==
    /\ pc \in {"done", "error"}
    /\ pc' = "idle"
    /\ frame' = NoFrame
    /\ ret' = NoRet
    /\ UNCHANGED <<params, first>>

(* --------------------------- specifications -------------------------- *)
Init ==
    /\ \E c \in ParamChoices : params = MakeParams(c[1], c[2], c[3])
    /\ pc = "idle"
    /\ frame = NoFrame
    /\ ret = NoRet
    /\ first = NoCall

AnyB == 1..MaxB
AnyT == 0..MaxT

Returned(fn) == pc = "done" /\ frame.fn = fn

\* Optim3.forward on well-shaped streams of batch size B and length T
Optim3CallShaped(B, T) ==
    \E s \in [1..T -> Samples3] :
        Optim3Call(InputTensor(B, T, xBehav_size, [t \in 1..T |-> s[t][1]]),
                   InputTensor(B, T, y_size, [t \in 1..T |-> s[t][2]]),
                   InputTensor(B, T, u_size, [t \in 1..T |-> s[t][3]]))

\* A caller's first call: any tensors, whatever their shapes (for Optim3: streams of any
\* three shapes with flat samples, or well-shaped streams)
FreshCall ==
    /\ pc = "idle" /\ first = NoCall
    /\ \/ \E y \in Tensors(AnyB, AnyT, {y_size, y_size + 1}),
             u \in Tensors(AnyB, AnyT, {u_size, u_size + 1}) : Optim1Call(y, u)
       \/ \E x \in Tensors(AnyB, AnyT, {xBehav_size, xBehav_size + 1}) : Optim2Call(x)
       \/ \E b \in FlatTensors(AnyB, AnyT, {xBehav_size, xBehav_size + 1}),
             y \in FlatTensors(AnyB, AnyT, {y_size, y_size + 1}),
             u \in FlatTensors(AnyB, AnyT, {u_size, u_size + 1}) : Optim3Call(b, y, u)
       \/ \E B \in AnyB, T \in AnyT : Optim3CallShaped(B, T)
       \/ \E x \in Tensors(AnyB, AnyT, {xNeural_size, xNeural_size + 1}) : Optim4Call(x)

\* The two-stage pipeline: the states stage 1 returned go to Optim2, and with the same
\* y and u to Optim3; the states stage 2 returned go to Optim4
LinkedCall ==
    \/ Returned("Optim1") /\ Optim2Call(ret.value[2])
    \/ Returned("Optim1") /\ Optim3Call(ret.value[2], frame.y, frame.u)
    \/ Returned("Optim3") /\ Optim4Call(ret.value[2])

Step ==
    \/ Optim1Step
    \/ Optim1Return
    \/ Optim2Step
    \/ Optim2Return
    \/ Optim3Step
    \/ Optim3Return
    \/ Optim4Step
    \/ Optim4Return

Next ==
    \/ FreshCall
    \/ LinkedCall
    \/ Step

Spec == Init /\ [][Next]_vars

\* Repeated calls of one instance: well-shaped inputs of the full batch size and of any
\* length, one call after the other on the module first called
ValidB == {MaxB}
ValidT == 1..MaxLen

RepeatedCall ==
    /\ pc = "idle"
    /\ \E B \in ValidB, T \in ValidT :
        \/ /\ first.fn \in {"none", "Optim1"}
           /\ \E y \in Tensors({B}, {T}, {y_size}),
                 u \in Tensors({B}, {T}, {u_size}) : Optim1Call(y, u)
        \/ /\ first.fn \in {"none", "Optim2"}
           /\ \E x \in Tensors({B}, {T}, {xBehav_size}) : Optim2Call(x)
        \/ /\ first.fn \in {"none", "Optim3"}
           /\ Optim3CallShaped(B, T)
        \/ /\ first.fn \in {"none", "Optim4"}
           /\ \E x \in Tensors({B}, {T}, {xNeural_size}) : Optim4Call(x)

NextCalls ==
    \/ RepeatedCall
    \/ Step
    \/ Consume

SpecCalls == Init /\ [][NextCalls]_vars

(* ------------------------------ properties --------------------------- *)
ZeroRow(D) == [i \in 1..D |-> 0]

Shaped(x, B, T, D) == x.B = B /\ x.T = T /\ x.D = D

\* the affine map of a layer on one row, and the sum of two rows
AffineRow(L, r) == [i \in 1..Len(L.b) |-> L.b[i] + DotTo(L.W[i], r, Len(r))]

RowSum(a, b) == [i \in 1..Len(a) |-> a[i] + b[i]]

\* the streams of the current call agree in batch size and length and have the
\* configured widths
WellShaped1 ==
    /\ frame.fn = "Optim1"
    /\ frame.u.B = frame.y.B /\ frame.u.T = frame.y.T
    /\ frame.y.D = y_size /\ frame.u.D = u_size

WellShaped3 ==
    /\ frame.fn = "Optim3"
    /\ frame.u.B = frame.y.B /\ frame.u.T = frame.y.T
    /\ frame.behavStates.B = frame.y.B /\ frame.behavStates.T = frame.y.T
    /\ frame.y.D = y_size /\ frame.u.D = u_size /\ frame.behavStates.D = xBehav_size

\* C1: the state sequence Optim1.forward or Optim3.forward returns has the zero vector
\* at time index 0, for every batch element, whatever the inputs and the parameters.
ZeroInitialState ==
    (Returned("Optim1") \/ Returned("Optim3")) =>
        LET x == ret.value[2]
        IN  /\ x.T >= 1
            /\ \A b \in 1..x.B : x.v[b][1] = ZeroRow(x.D)

ZeroInitialStateWitness ==
    /\ Returned("Optim3") /\ first.fn = "Optim1"
    /\ frame.y.B = MaxB /\ frame.y.T = MaxT
    /\ params.rnn_cell3.W_A.b # ZeroRow(xNeural_size)
    /\ ret.value[2].v[MaxB][MaxT] # ZeroRow(xNeural_size)

\* C2: Optim1.forward returns x[0..T-1] in time order: as many states as y has samples,
\* x[0] = 0 and x[t+1] = A(x[t]) + K(y[t]) + B(u[t]), each map affine with its own bias;
\* the state computed in the last iteration is not returned.
StatesAreRecurrence ==
    (Returned("Optim1") /\ WellShaped1) =>
        LET x == ret.value[2]
            y == frame.y
            u == frame.u
            c == params.rnn_cell1
        IN  /\ x.T = y.T /\ x.B = y.B
            /\ \A b \in 1..y.B :
                /\ x.v[b][1] = ZeroRow(xBehav_size)
                /\ \A t \in 1..(y.T - 1) :
                      x.v[b][t + 1] = RowSum(RowSum(AffineRow(c.W_A, x.v[b][t]),
                                                    AffineRow(c.W_K, y.v[b][t])),
                                             AffineRow(c.W_B, u.v[b][t]))

StatesAreRecurrenceWitness ==
    /\ Returned("Optim1") /\ WellShaped1
    /\ frame.y.T = MaxT /\ frame.y.B = MaxB
    /\ params.rnn_cell1.W_A.W[1][1] # 0
    /\ ret.value[2].v[1][MaxT] # ret.value[2].v[2][MaxT]
    /\ frame.xBehav_t # Slice(ret.value[2], MaxT - 1)

ShapeLaw ==
    /\ Returned("Optim1") =>
          /\ Shaped(ret.value[1], frame.y.B, frame.y.T, zhat_size)
          /\ Shaped(ret.value[2], frame.y.B, frame.y.T, xBehav_size)
    /\ Returned("Optim3") =>
          /\ Shaped(ret.value[1], frame.y.B, frame.y.T, yhat_size)
          /\ Shaped(ret.value[2], frame.y.B, frame.y.T, xNeural_size)
    /\ Returned("Optim2") =>
          Shaped(ret.value, frame.xBehav_t.B, frame.xBehav_t.T, yhat_size)
    /\ Returned("Optim4") =>
          Shaped(ret.value, frame.xNeural_t.B, frame.xNeural_t.T, zhat_size)

ShapeLawWitness ==
    /\ Returned("Optim4") /\ first.fn = "Optim1"
    /\ frame.xNeural_t.B = MaxB /\ frame.xNeural_t.T = MaxT
    /\ MaxB # MaxT \/ MaxB > 1

\* C4: in Optim3.forward the vector fed to W_K at step t is y[:,t,:] followed by
\* behavStates[:,t,:], both of index t; the returned xNeural has xNeural[0] = 0 and
\* xNeural[t+1] = A'(xNeural[t]) + K'([y[t], behavStates[t]]) + B'(u[t]); and the xBehav
\* Optim1.forward returned, fed with the same y (and u) to Optim3.forward, raises no error.
DrivenByConcatenation ==
    /\ (pc = "loop" /\ frame.fn = "Optim3" /\ frame.t < frame.seq_len) =>
          \A b \in 1..frame.y.B :
              Slice(frame.yAndxBehav, frame.t)[b] =
                  frame.y.v[b][frame.t + 1] \o frame.behavStates.v[b][frame.t + 1]
    /\ (Returned("Optim3") /\ WellShaped3) =>
          LET x == ret.value[2]
              y == frame.y
              u == frame.u
              xb == frame.behavStates
              c == params.rnn_cell3
          IN  /\ x.T = y.T /\ x.B = y.B
              /\ \A b \in 1..y.B :
                  /\ x.v[b][1] = ZeroRow(xNeural_size)
                  /\ \A t \in 1..(y.T - 1) :
                        x.v[b][t + 1] =
                            RowSum(RowSum(AffineRow(c.W_A, x.v[b][t]),
                                          AffineRow(c.W_K, y.v[b][t] \o xb.v[b][t])),
                                   AffineRow(c.W_B, u.v[b][t]))
    /\ (frame.fn = "Optim3" /\ first.fn = "Optim1"
          /\ frame.behavStates = first.out[2] /\ frame.y = first.in[1]) => pc # "error"

DrivenByConcatenationWitness ==
    /\ Returned("Optim3") /\ WellShaped3 /\ first.fn = "Optim1"
    /\ frame.behavStates = first.out[2] /\ frame.y = first.in[1]
    /\ frame.y.T = MaxT
    /\ params.rnn_cell3.W_K.W[1][1] # 0
    /\ frame.y.v[1][MaxT - 1] \o frame.behavStates.v[1][MaxT - 1]
          # frame.behavStates.v[1][MaxT - 1] \o frame.y.v[1][MaxT - 1]

\* C5 (as claimed): a call of Optim1.forward or Optim3.forward whose streams differ in
\* batch size or length, or whose width is not the configured one, ends in an error
\* raised before any recurrence step: no step is executed and nothing is returned.
FailsFastOnMismatch ==
    /\ (frame.fn = "Optim1" /\ ~WellShaped1) => (frame.t = 0 /\ pc # "done")
    /\ (frame.fn = "Optim3" /\ ~WellShaped3) => (frame.t = 0 /\ pc # "done")

ZeroWeights(L) == \A i \in 1..Len(L.W) : \A j \in 1..Len(L.W[i]) : L.W[i][j] = 0

\* C8 (as claimed): with the weights of A and K zero, the states Optim1.forward returns
\* are x[0] = 0 and x[t+1] = B(u[t]).
ZeroWeightsGiveInputOnly ==
    (Returned("Optim1") /\ WellShaped1
        /\ ZeroWeights(params.rnn_cell1.W_A) /\ ZeroWeights(params.rnn_cell1.W_K)) =>
        LET x == ret.value[2]
        IN  \A b \in 1..x.B :
                /\ x.v[b][1] = ZeroRow(xBehav_size)
                /\ \A t \in 1..(x.T - 1) :
                      x.v[b][t + 1] = AffineRow(params.rnn_cell1.W_B, frame.u.v[b][t])

\* C8 (amended): with the weights of A and K zero, the states Optim1.forward returns are
\* x[0] = 0 and x[t+1] = B(u[t]) + bias of A + bias of K: independent of the previous
\* state and of y, and equal to B(u[t]) when the biases of A and K are zero as well.
ZeroWeightsGiveInputAndBiases ==
    (Returned("Optim1") /\ WellShaped1
        /\ ZeroWeights(params.rnn_cell1.W_A) /\ ZeroWeights(params.rnn_cell1.W_K)) =>
        LET x == ret.value[2]
            c == params.rnn_cell1
        IN  \A b \in 1..x.B :
                /\ x.v[b][1] = ZeroRow(xBehav_size)
                /\ \A t \in 1..(x.T - 1) :
                      x.v[b][t + 1] = RowSum(RowSum(c.W_A.b, c.W_K.b),
                                             AffineRow(c.W_B, frame.u.v[b][t]))

ZeroWeightsWitness ==
    /\ Returned("Optim1") /\ WellShaped1
    /\ ZeroWeights(params.rnn_cell1.W_A) /\ ZeroWeights(params.rnn_cell1.W_K)
    /\ params.rnn_cell1.W_K.b # ZeroRow(xBehav_size)
    /\ frame.y.T = MaxT
    /\ frame.y.v[1][1] # frame.y.v[1][2]
    /\ frame.u.v[1][1] # frame.u.v[1][2]
    /\ ret.value[2].v[1][3] # ret.value[2].v[1][2]

(* --------------------- properties of repeated calls ------------------ *)
\* the inputs and the outputs of the current call and of the first call, as tuples
CurIn ==
    CASE frame.fn = "Optim1" -> <<frame.y, frame.u>>
      [] frame.fn = "Optim2" -> <<frame.xBehav_t>>
      [] frame.fn = "Optim3" -> <<frame.behavStates, frame.y, frame.u>>
      [] frame.fn = "Optim4" -> <<frame.xNeural_t>>

CurOut == IF frame.fn \in {"Optim2", "Optim4"} THEN <<ret.value>> ELSE ret.value

FirstOut == IF first.fn \in {"Optim2", "Optim4"} THEN <<first.out>> ELSE first.out

\* a and b have the same batch size and width and the same samples at the first k
\* time indices
AgreeBefore(a, b, k) ==
    /\ a.B = b.B /\ a.D = b.D /\ a.T >= k /\ b.T >= k
    /\ \A r \in 1..a.B : \A t \in 1..k : a.v[r][t] = b.v[r][t]

PrefixOf(a, b) == a.T <= b.T /\ AgreeBefore(a, b, a.T)

AllPrefixOf(as, bs) == \A i \in 1..Len(as) : PrefixOf(as[i], bs[i])

\* a call of the module first called has returned
ReturnedAgain == pc = "done" /\ first.fn = frame.fn

NoStateSurvives ==
    /\ (pc = "loop" /\ frame.t = 0) =>
          CASE frame.fn = "Optim1" ->
                  /\ frame.xBehav_t = [b \in 1..frame.y.B |-> ZeroRow(xBehav_size)]
                  /\ frame.behavStates = <<>> /\ frame.z_hats1 = <<>>
            [] frame.fn = "Optim2" -> frame.y_hats1 = <<>>
            [] frame.fn = "Optim3" ->
                  /\ frame.xNeural_t = [b \in 1..frame.y.B |-> ZeroRow(xNeural_size)]
                  /\ frame.xNeural_states = <<>> /\ frame.y_hats2 = <<>>
            [] frame.fn = "Optim4" -> frame.z_hats2 = <<>>
    /\ (ReturnedAgain /\ CurIn = first.in) => CurOut = FirstOut

NoStateSurvivesWitness ==
    /\ ReturnedAgain /\ frame.repeated /\ frame.fn = "Optim1"
    /\ CurIn = first.in
    /\ frame.y.T = MaxLen
    /\ ret.value[2].v[1][MaxLen] # ZeroRow(xBehav_size)

====
